---- MODULE Spec2Model ----
(***************************************************************************)
(* A model of the two programs of the repository:                          *)
(*   runtime/fsm-check.py       the FSM trace checker (policy loader, the   *)
(*                              textual and sideband tag extractors,        *)
(*                              validate, main and its exit statuses);      *)
(*   scripts/create_sd_image.py the SD-image tool's main.                   *)
(* Text is a sequence of one-character strings, a byte stream a sequence   *)
(* of numbers 0..255, a JSON object (dict) a sequence of key/value entries *)
(* in document order, a JSON list a sequence.                              *)
(***************************************************************************)
EXTENDS Integers, Sequences, FiniteSets, TLC

VARIABLES pc, args, policy, asm_text, sideband_bytes, extraction, tags,
          result, exitStatus, exc,
          sdpc, sdargs, fs, effects, sdExit

fsmVars == <<pc, args, policy, asm_text, sideband_bytes, extraction, tags,
             result, exitStatus, exc>>
sdVars == <<sdpc, sdargs, fs, effects, sdExit>>
vars == <<fsmVars, sdVars>>

(***************************************************************************)
(* Bounds of the model.                                                    *)
(***************************************************************************)
\* the longest sideband stream, in 4-byte records
MaxRecords == 2
\* the longest assembly text, in chunks of AsmChunks
MaxChunks == 2

(***************************************************************************)
(* Program constants.                                                      *)
(***************************************************************************)
RecordSize == 4
ExitPass == 0
ExitFail == 1
ExitUsage == 2
\* the interpreter's status for an exception that main does not catch
ExitUncaught == 1
MinSizeMb == 32
SdExitOk == 0
SdExitFailed == 1
SdExitUsage == 2

Range(s) == {s[i] : i \in DOMAIN s}

RECURSIVE Cat(_)
\* the string made of a sequence of characters
Cat(cs) == IF cs = <<>> THEN "" ELSE Head(cs) \o Cat(Tail(cs))

RECURSIVE SeqsUpTo(_, _)
\* the sequences over S of length at most n
SeqsUpTo(S, n) ==
  IF n = 0 THEN {<<>>}
  ELSE LET shorter == SeqsUpTo(S, n - 1)
       IN shorter \cup {Append(s, x) : s \in {t \in shorter : Len(t) = n - 1}, x \in S}

RECURSIVE Flatten(_)
Flatten(ss) == IF ss = <<>> THEN <<>> ELSE Head(ss) \o Flatten(Tail(ss))

(***************************************************************************)
(* dict.get on a dict kept as entries in insertion order (keys unique).    *)
(***************************************************************************)
HasKey(d, k) == \E i \in DOMAIN d : d[i].key = k
DictGet(d, k, default) ==
  IF HasKey(d, k) THEN d[CHOOSE i \in DOMAIN d : d[i].key = k].val ELSE default

(***************************************************************************)
(* extract_tags: the textual extractor.                                    *)
(***************************************************************************)
\* the characters of [A-Za-z0-9_]
IdentChars ==
  {"A", "B", "C", "D", "E", "F", "G", "H", "I", "J", "K", "L", "M", "N", "O",
   "P", "Q", "R", "S", "T", "U", "V", "W", "X", "Y", "Z", "a", "b", "c", "d",
   "e", "f", "g", "h", "i", "j", "k", "l", "m", "n", "o", "p", "q", "r", "s",
   "t", "u", "v", "w", "x", "y", "z", "0", "1", "2", "3", "4", "5", "6", "7",
   "8", "9", "_"}

\* the line boundaries of str.splitlines that the modelled texts use
LineBreaks == {"\n", "\r"}

RECURSIVE SplitLines(_)
\* str.splitlines(): "\r\n" is one boundary, a final boundary opens no line
SplitLines(text) ==
  IF text = <<>> THEN <<>>
  ELSE LET brk == {i \in DOMAIN text : text[i] \in LineBreaks}
       IN IF brk = {} THEN <<text>>
          ELSE LET n == CHOOSE i \in brk : \A j \in brk : i <= j
                   last == IF text[n] = "\r" /\ n < Len(text) /\ text[n + 1] = "\n"
                           THEN n + 1 ELSE n
               IN <<SubSeq(text, 1, n - 1)>> \o SplitLines(SubSeq(text, last + 1, Len(text)))

\* the places of a line where TAG:([A-Za-z0-9_]+) matches, at the start only
MarkerAtStart(line) ==
  {i \in {1} : /\ i + 4 <= Len(line)
               /\ SubSeq(line, i, i + 3) = <<"T", "A", "G", ":">>
               /\ line[i + 4] \in IdentChars}

\* the places of a line where TAG:([A-Za-z0-9_]+) matches
MarkerPlaces(line) ==
  {i \in DOMAIN line : /\ i + 4 <= Len(line)
                       /\ SubSeq(line, i, i + 3) = <<"T", "A", "G", ":">>
                       /\ line[i + 4] \in IdentChars}

\* m.group(1) of the match at place i: the longest run of identifier characters
MarkerGroup(line, i) ==
  LET stops == {j \in (i + 4)..Len(line) : line[j] \notin IdentChars}
      end == IF stops = {} THEN Len(line)
             ELSE (CHOOSE j \in stops : \A k \in stops : j <= k) - 1
  IN Cat(SubSeq(line, i + 4, end))

RECURSIVE TagsOfLines(_)
\* the loop of extract_tags: pattern.search gives the leftmost match of a line
TagsOfLines(lines) ==
  IF lines = <<>> THEN <<>>
  ELSE LET line == Head(lines)
           places == MarkerPlaces(line)
       IN (IF places = {} THEN <<>>
           ELSE <<MarkerGroup(line, CHOOSE i \in places : \A j \in places : i <= j)>>)
          \o TagsOfLines(Tail(lines))

extract_tags(asm_text_) == TagsOfLines(SplitLines(asm_text_))

(***************************************************************************)
(* _parse_state_id and extract_tags_from_sideband: the binary extractor.   *)
(* A raw ids value is [t, v, s]: t = "int" with the number v, t = "str"    *)
(* with the characters s, or t = "other" (a JSON float, list, null ...).   *)
(***************************************************************************)
HexLower == <<"0", "1", "2", "3", "4", "5", "6", "7", "8", "9", "a", "b", "c", "d", "e", "f">>
HexUpper == <<"0", "1", "2", "3", "4", "5", "6", "7", "8", "9", "A", "B", "C", "D", "E", "F">>
HexChars == Range(HexLower) \cup Range(HexUpper)
DecChars == {HexLower[i] : i \in 1..10}
DigitVal(c) == (CHOOSE i \in 1..16 : HexLower[i] = c \/ HexUpper[i] = c) - 1

RECURSIVE DigitsValue(_, _, _)
DigitsValue(ds, base, acc) ==
  IF ds = <<>> THEN acc ELSE DigitsValue(Tail(ds), base, acc * base + DigitVal(Head(ds)))

ParseFailed == [ok |-> FALSE, v |-> 0]

\* int(value, 0) on a sign, decimal digits or a 0x literal (no blanks, no
\* underscores, no 0o or 0b literal in the modelled values)
ParseInt0(cs) ==
  LET signed == cs # <<>> /\ Head(cs) \in {"+", "-"}
      body == IF signed THEN Tail(cs) ELSE cs
      sign == IF signed /\ Head(cs) = "-" THEN -1 ELSE 1
      hex == Len(body) >= 2 /\ body[1] = "0" /\ body[2] \in {"x", "X"}
      digits == IF hex THEN SubSeq(body, 3, Len(body)) ELSE body
  IN IF digits = <<>> THEN ParseFailed
     ELSE IF hex
          THEN IF Range(digits) \subseteq HexChars
               THEN [ok |-> TRUE, v |-> sign * DigitsValue(digits, 16, 0)]
               ELSE ParseFailed
          ELSE IF ~(Range(digits) \subseteq DecChars) THEN ParseFailed
               ELSE IF Len(digits) > 1 /\ digits[1] = "0" /\ Range(digits) # {"0"}
                    THEN ParseFailed
                    ELSE [ok |-> TRUE, v |-> sign * DigitsValue(digits, 10, 0)]

_parse_state_id(value) ==
  IF value.t = "int" THEN [ok |-> TRUE, v |-> value.v]
  ELSE IF value.t = "str" THEN ParseInt0(value.s)
  ELSE ParseFailed

\* the i-th "<I" record of the stream, big-endian
UnpackU32BE(bytes, i) ==
  LET o == RecordSize * (i - 1)
  IN bytes[o + 4] + 256 * bytes[o + 3] + 65536 * bytes[o + 2] + 16777216 * bytes[o + 1]

\* struct.iter_unpack("<I", ...): the i-th unsigned 32-bit little-endian record
UnpackU32(bytes, i) ==
  LET o == RecordSize * (i - 1)
  IN bytes[o + 1] + 256 * bytes[o + 2] + 65536 * bytes[o + 3] + 16777216 * bytes[o + 4]

\* f"ID_{raw_id}"
Placeholder(raw_id) == "ID_" \o ToString(raw_id)

\* id_to_state.get(raw_id, f"ID_{raw_id}"): id_to_state is filled in the order
\* of ids, so of two states with one id the later one stays
ResolveId(ids, raw_id) ==
  LET hits == {i \in DOMAIN ids : _parse_state_id(ids[i].val).v = raw_id}
  IN IF hits = {} THEN Placeholder(raw_id)
     ELSE ids[CHOOSE i \in hits : \A j \in hits : j <= i].key

NoMessage == [kind |-> "none", n |-> 0]

\* the length test of extract_tags_from_sideband
LengthOk(bytes) == Len(bytes) % RecordSize = 0

\* what extract_tags_from_sideband does once the length is accepted: exc is the
\* exception it ends with, parsed the ids entries it parsed and unpacked the
\* records it read before that
DecodeSideband(bytes, pol) ==
  IF pol.kind # "object"
  THEN [exc |-> "AttributeError", msg |-> NoMessage, tags |-> <<>>, parsed |-> 0, unpacked |-> 0]
  ELSE LET ids == pol.ids
           bad == {i \in DOMAIN ids : ~_parse_state_id(ids[i].val).ok}
       IN IF bad # {}
          THEN LET b == CHOOSE i \in bad : \A j \in bad : i <= j
               IN [exc |-> "ValueError", msg |-> [kind |-> "bad_id", n |-> b],
                   tags |-> <<>>, parsed |-> b - 1, unpacked |-> 0]
          ELSE LET n == Len(bytes) \div RecordSize
               IN [exc |-> "none", msg |-> NoMessage,
                   tags |-> [i \in 1..n |-> ResolveId(ids, UnpackU32(bytes, i))],
                   parsed |-> Len(ids), unpacked |-> n]

BadLength(bytes) ==
  [exc |-> "ValueError", msg |-> [kind |-> "bad_length", n |-> Len(bytes)],
   tags |-> <<>>, parsed |-> 0, unpacked |-> 0]

\* the extractor with the length test made after the decoding
ExtractLengthTestLast(bytes, pol) ==
  LET d == DecodeSideband(SubSeq(bytes, 1, RecordSize * (Len(bytes) \div RecordSize)), pol)
  IN IF d.exc # "none" THEN d
     ELSE IF ~LengthOk(bytes) THEN [BadLength(bytes) EXCEPT !.parsed = d.parsed, !.unpacked = d.unpacked]
     ELSE d

extract_tags_from_sideband(bytes, pol) ==
  IF ~LengthOk(bytes) THEN BadLength(bytes) ELSE DecodeSideband(bytes, pol)

(***************************************************************************)
(* validate.  A violation is [kind, a, b, allowed, accept].                *)
(***************************************************************************)
NoTagsError ==
  [kind |-> "no_tags", a |-> "", b |-> "", allowed |-> <<>>, accept |-> {}]
BadStartError(first, start) ==
  [kind |-> "bad_start", a |-> first, b |-> start, allowed |-> <<>>, accept |-> {}]
IllegalError(prev, curr, allowed) ==
  [kind |-> "illegal", a |-> prev, b |-> curr, allowed |-> allowed, accept |-> {}]
\* sorted(accept) is determined by the set accept
BadFinalError(last, accept) ==
  [kind |-> "bad_final", a |-> last, b |-> "", allowed |-> <<>>, accept |-> accept]

\* an empty trace taken as a vacuous pass
EmptyTracePasses == [exc |-> "none", ok |-> TRUE, errors |-> <<>>]

\* "if not tags: return False, [...]"
EmptyTraceResult == [exc |-> "none", ok |-> FALSE, errors |-> <<NoTagsError>>]

\* "if start and tags[0] != start": None and "" are falsy
StartErrors(tgs, start) ==
  IF start # <<>> /\ start[1] # "" /\ tgs[1] # start[1]
  THEN <<BadStartError(tgs[1], start[1])>>
  ELSE <<>>

\* a state without an entry taken as its own only successor
AllowedSelfLoop(transitions, prev) == DictGet(transitions, prev, <<prev>>)

\* transitions.get(prev, [])
Allowed(transitions, prev) == DictGet(transitions, prev, <<>>)

RECURSIVE TransitionErrorsFirstOnly(_, _)
\* the loop stopped at its first violation
TransitionErrorsFirstOnly(tgs, transitions) ==
  IF Len(tgs) < 2 THEN <<>>
  ELSE LET allowed == Allowed(transitions, tgs[1])
       IN IF tgs[2] \notin Range(allowed)
          THEN <<IllegalError(tgs[1], tgs[2], allowed)>>
          ELSE TransitionErrorsFirstOnly(Tail(tgs), transitions)

RECURSIVE TransitionErrors(_, _)
\* "for prev, curr in zip(tags, tags[1:])"
TransitionErrors(tgs, transitions) ==
  IF Len(tgs) < 2 THEN <<>>
  ELSE LET allowed == Allowed(transitions, tgs[1])
       IN (IF tgs[2] \notin Range(allowed)
           THEN <<IllegalError(tgs[1], tgs[2], allowed)>>
           ELSE <<>>)
          \o TransitionErrors(Tail(tgs), transitions)

\* the accept check left out
AcceptErrorsOmitted(tgs, acceptList) == <<>>

\* "if accept and tags[-1] not in accept", accept = set(policy.get("accept", []))
AcceptErrors(tgs, acceptList) ==
  LET accept == Range(acceptList)
      last == tgs[Len(tgs)]
  IN IF accept # {} /\ last \notin accept
     THEN <<BadFinalError(last, accept)>>
     ELSE <<>>

validate(tgs, pol) ==
  IF pol.kind # "object"
  THEN [exc |-> "AttributeError", ok |-> FALSE, errors |-> <<>>]
  ELSE IF tgs = <<>> THEN EmptyTraceResult
  ELSE LET errors == StartErrors(tgs, pol.start)
                     \o TransitionErrors(tgs, pol.transitions)
                     \o AcceptErrors(tgs, pol.accept)
       IN [exc |-> "none", ok |-> errors = <<>>, errors |-> errors]

(***************************************************************************)
(* The inputs of a run: the command line, the policy document, the         *)
(* assembly text and the sideband stream.                                  *)
(***************************************************************************)
\* --asm and --sideband-bin, each given (a non-empty path) or not
ArgvSet == [asm : BOOLEAN, sideband_bin : BOOLEAN]

Entry(k, v) == [key |-> k, val |-> v]
IntId(n) == [t |-> "int", v |-> n, s |-> <<>>]
StrId(cs) == [t |-> "str", v |-> 0, s |-> cs]
OtherId == [t |-> "other", v |-> 0, s |-> <<>>]

\* "start": absent, or one state name
Starts == {<<>>, <<"">>, <<"INIT">>, <<"ID_5">>}
\* "accept"
AcceptLists == {<<>>, <<"DONE">>, <<"RUN", "ID_5">>}
\* "transitions"
HappyTransitions == <<Entry("INIT", <<"RUN">>), Entry("RUN", <<"DONE">>)>>
TransitionTables ==
  {<<>>,
   HappyTransitions,
   <<Entry("INIT", <<"INIT", "RUN", "ID_5">>), Entry("RUN", <<"RUN", "DONE", "INIT">>),
     Entry("DONE", <<>>)>>,
   <<Entry("ID_5", <<"DONE", "ID_5">>), Entry("INIT", <<"ID_5">>), Entry("", <<"INIT">>)>>}
\* "ids"
StdIds == <<Entry("INIT", IntId(0)), Entry("RUN", IntId(1)), Entry("DONE", IntId(16909060))>>
IdsTables ==
  {<<>>,
   StdIds,
   <<Entry("INIT", StrId(<<"0", "x", "0">>)), Entry("RUN", StrId(<<"1">>)),
     Entry("DONE", StrId(<<"0", "x", "1", "0", "2", "0", "3", "0", "4">>))>>,
   <<Entry("INIT", IntId(1)), Entry("RUN", StrId(<<"1">>)), Entry("DONE", StrId(<<"-", "1">>))>>,
   <<Entry("INIT", IntId(0)), Entry("RUN", StrId(<<"a", "b", "c">>))>>,
   <<Entry("INIT", OtherId), Entry("RUN", StrId(<<"0", "0", "7">>))>>,
   <<Entry("ID_5", IntId(0)), Entry("", IntId(1))>>}
\* the ids tables tried with --asm, which never reads ids
AsmIdsTables == {<<>>, <<Entry("INIT", IntId(0)), Entry("RUN", StrId(<<"a", "b", "c">>))>>}

NoPolicy ==
  [kind |-> "none", start |-> <<>>, accept |-> <<>>, transitions |-> <<>>, ids |-> <<>>]
\* a policy file that is not JSON, and one whose JSON is not an object
MalformedDoc == [NoPolicy EXCEPT !.kind = "malformed"]
NonObjectDoc == [NoPolicy EXCEPT !.kind = "nonobject"]
ObjectDocs(idsTables) ==
  {[kind |-> "object", start |-> st, accept |-> ac, transitions |-> tr, ids |-> ids] :
     st \in Starts, ac \in AcceptLists, tr \in TransitionTables, ids \in idsTables}
PolicyDocs(argv) ==
  {MalformedDoc, NonObjectDoc}
  \cup ObjectDocs(IF argv.sideband_bin THEN IdsTables ELSE AsmIdsTables)

\* pieces of assembly text
AsmChunks ==
  {<<"T", "A", "G", ":", "I", "N", "I", "T">>,
   <<" ", " ", "#", " ", "T", "A", "G", ":", "R", "U", "N", " ", "T", "A", "G", ":", "D", "O", "N", "E">>,
   <<"n", "o", "p", "\r", "\n", "T", "A", "G", ":", "D", "O", "N", "E", ";">>,
   <<"T", "A", "G", ":", "-">>,
   <<"x", "T", "A", "G", ":", "I", "D", "_", "5">>,
   <<"T", "A", "G", ":", "R", "U", "N", "\n", "T", "A", "G", ":", "I", "N", "I", "T", "\n">>}

RECURSIVE JoinLines(_)
\* the chunks, a "\n" between two of them
JoinLines(chunks) ==
  IF chunks = <<>> THEN <<>>
  ELSE IF Len(chunks) = 1 THEN chunks[1]
  ELSE chunks[1] \o <<"\n">> \o JoinLines(Tail(chunks))

AsmTexts == {JoinLines(cs) : cs \in SeqsUpTo(AsmChunks, MaxChunks)}

\* struct.pack("<I", n)
PackU32(n) ==
  <<n % 256, (n \div 256) % 256, (n \div 65536) % 256, (n \div 16777216) % 256>>
PackAll(ns) == Flatten([i \in DOMAIN ns |-> PackU32(ns[i])])

\* the state IDs written to the modelled streams, and the bytes of a cut record
StreamIds == {0, 1, 5, 16909060}
StreamTails == {<<>>, <<7>>, <<7, 0, 0>>}
SidebandStreams ==
  {PackAll(ns) \o tail : ns \in SeqsUpTo(StreamIds, MaxRecords), tail \in StreamTails}

(***************************************************************************)
(* main of fsm-check.py.                                                   *)
(***************************************************************************)
NoExtraction ==
  [exc |-> "notrun", msg |-> NoMessage, tags |-> <<>>, parsed |-> 0, unpacked |-> 0]
NotValidated == [exc |-> "notrun", ok |-> FALSE, errors |-> <<>>]
NoStatus == -1

Init ==
  /\ pc = "parse_args"
  /\ args \in ArgvSet
  /\ policy = NoPolicy
  /\ asm_text = <<>>
  /\ sideband_bytes = <<>>
  /\ extraction = NoExtraction
  /\ tags = <<>>
  /\ result = NotValidated
  /\ exitStatus = NoStatus
  /\ exc = "none"
  /\ sdpc = "off"
  /\ sdargs = <<>>
  /\ fs = <<>>
  /\ effects = <<>>
  /\ sdExit = NoStatus

\* the process ends with a status
Exit(status, exception) ==
  /\ pc' = "done"
  /\ exitStatus' = status
  /\ exc' = exception

\* parse_args: p.error() ends the process with argparse's status
ParseArgs ==
  /\ pc = "parse_args"
  /\ IF args.asm = args.sideband_bin
     THEN Exit(ExitUsage, "SystemExit")
     ELSE pc' = "load_policy" /\ UNCHANGED <<exitStatus, exc>>
  /\ UNCHANGED <<args, policy, asm_text, sideband_bytes, extraction, tags, result, sdVars>>

\* "if not policy_path.exists(): return 2"
PolicyNotFound ==
  /\ pc = "load_policy"
  /\ Exit(ExitUsage, "none")
  /\ UNCHANGED <<args, policy, asm_text, sideband_bytes, extraction, tags, result, sdVars>>

\* the status main ends with for the policy document json.load is given
LoadStatus(doc) == IF doc.kind = "malformed" THEN ExitUncaught ELSE NoStatus

\* "policy = load_policy(policy_path)", outside any try: json.load raises
\* JSONDecodeError on a file that is not JSON
LoadPolicy ==
  /\ pc = "load_policy"
  /\ \E doc \in PolicyDocs(args) :
       IF LoadStatus(doc) # NoStatus
       THEN Exit(LoadStatus(doc), "JSONDecodeError") /\ UNCHANGED policy
       ELSE /\ policy' = doc
            /\ pc' = "extract"
            /\ UNCHANGED <<exitStatus, exc>>
  /\ UNCHANGED <<args, asm_text, sideband_bytes, extraction, tags, result, sdVars>>

\* "if not asm_path.exists(): return 2" and its sideband twin
TraceNotFound ==
  /\ pc = "extract"
  /\ Exit(ExitUsage, "none")
  /\ UNCHANGED <<args, policy, asm_text, sideband_bytes, extraction, tags, result, sdVars>>

\* "tags = extract_tags(asm_path.read_text(...))"
ExtractAsm ==
  /\ pc = "extract"
  /\ args.asm
  /\ \E text \in AsmTexts :
       /\ asm_text' = text
       /\ tags' = extract_tags(text)
  /\ pc' = "validate"
  /\ UNCHANGED <<args, policy, sideband_bytes, extraction, result, exitStatus, exc, sdVars>>

\* "try: tags = extract_tags_from_sideband(...) except ValueError: return 2";
\* any other exception leaves main
ExtractSideband ==
  /\ pc = "extract"
  /\ ~args.asm
  /\ \E bytes \in SidebandStreams :
       LET e == extract_tags_from_sideband(bytes, policy)
       IN /\ sideband_bytes' = bytes
          /\ extraction' = e
          /\ tags' = e.tags
          /\ IF e.exc = "none" THEN pc' = "validate" /\ UNCHANGED <<exitStatus, exc>>
             ELSE IF e.exc = "ValueError" THEN Exit(ExitUsage, "none")
             ELSE Exit(ExitUncaught, e.exc)
  /\ UNCHANGED <<args, policy, asm_text, result, sdVars>>

\* "ok, errors = validate(tags, policy)" and the report
ValidateAndReport ==
  /\ pc = "validate"
  /\ LET r == validate(tags, policy)
     IN /\ result' = r
        /\ IF r.exc # "none" THEN Exit(ExitUncaught, r.exc)
           ELSE IF r.ok THEN Exit(ExitPass, "none")
           ELSE Exit(ExitFail, "none")
  /\ UNCHANGED <<args, policy, asm_text, sideband_bytes, extraction, tags, sdVars>>

Next ==
  \/ ParseArgs
  \/ PolicyNotFound
  \/ LoadPolicy
  \/ TraceNotFound
  \/ ExtractAsm
  \/ ExtractSideband
  \/ ValidateAndReport

Spec == Init /\ [][Next]_vars

(***************************************************************************)
(* main of create_sd_image.py.  fs is what the file system holds (the      *)
(* layout directory, the output image), effects the steps that acted on    *)
(* the image or the device, in order, each with its outcome.               *)
(***************************************************************************)
SdArgSet ==
  [size_mb : {31, 32, 256},
   force : BOOLEAN,
   flash_device : {"", "/dev/sdX"},
   confirm_flash_device : {"", "/dev/sdX", "/dev/sdY"}]
SdFiles == [layout : {"missing", "file", "empty_dir", "dir"}, image : BOOLEAN]

InitSD ==
  /\ sdpc = "check_args"
  /\ sdargs \in SdArgSet
  /\ fs \in SdFiles
  /\ effects = <<>>
  /\ sdExit = NoStatus
  /\ pc = "off"
  /\ args = [asm |-> FALSE, sideband_bin |-> FALSE]
  /\ policy = NoPolicy
  /\ asm_text = <<>>
  /\ sideband_bytes = <<>>
  /\ extraction = NoExtraction
  /\ tags = <<>>
  /\ result = NotValidated
  /\ exitStatus = NoStatus
  /\ exc = "none"

\* the argument checks without the flash confirmation
ArgsAcceptedUnconfirmed(a, files) ==
  /\ ~(a.size_mb < MinSizeMb)
  /\ files.layout \in {"empty_dir", "dir"}
  /\ ~(files.image /\ ~a.force)

\* the four argument checks of main, all passed
ArgsAccepted(a, files) ==
  /\ ~(a.size_mb < MinSizeMb)
  /\ files.layout \in {"empty_dir", "dir"}
  /\ ~(files.image /\ ~a.force)
  /\ ~(a.flash_device # "" /\ a.confirm_flash_device # a.flash_device)

SdExitWith(status) ==
  /\ sdpc' = "done"
  /\ sdExit' = status

Effect(op, ok) == [op |-> op, ok |-> ok]

\* the checks before the try block: each failure returns 2
SdCheckArgs ==
  /\ sdpc = "check_args"
  /\ IF ArgsAccepted(sdargs, fs)
     THEN sdpc' = "ensure_tools" /\ UNCHANGED sdExit
     ELSE SdExitWith(SdExitUsage)
  /\ UNCHANGED <<sdargs, fs, effects, fsmVars>>

\* ensure_tools_exist(): RuntimeError when a tool is missing
SdEnsureTools ==
  /\ sdpc = "ensure_tools"
  /\ \E present \in BOOLEAN :
       IF present THEN sdpc' = "unlink" /\ UNCHANGED sdExit
       ELSE SdExitWith(SdExitFailed)
  /\ UNCHANGED <<sdargs, fs, effects, fsmVars>>

\* "if output_image.exists() and args.force"
MayUnlink(a, files) == files.image /\ a.force

\* "output_image.unlink()"
SdUnlink ==
  /\ sdpc = "unlink"
  /\ IF MayUnlink(sdargs, fs)
     THEN /\ fs' = [fs EXCEPT !.image = FALSE]
          /\ effects' = Append(effects, Effect("unlink", TRUE))
     ELSE UNCHANGED <<fs, effects>>
  /\ sdpc' = "create"
  /\ UNCHANGED <<sdargs, sdExit, fsmVars>>

\* create_partitioned_image: truncate makes the file, a later command may fail
SdCreate ==
  /\ sdpc = "create"
  /\ \E outcome \in {"ok", "truncate_failed", "later_failed"} :
       /\ fs' = [fs EXCEPT !.image = @ \/ outcome # "truncate_failed"]
       /\ effects' = Append(effects, Effect("create", outcome = "ok"))
       /\ IF outcome = "ok" THEN sdpc' = "populate" /\ UNCHANGED sdExit
          ELSE SdExitWith(SdExitFailed)
  /\ UNCHANGED <<sdargs, fsmVars>>

\* populate_image_from_layout: RuntimeError on a layout without files,
\* CalledProcessError when mmd or mcopy fails
SdPopulate ==
  /\ sdpc = "populate"
  /\ \E copied \in BOOLEAN :
       LET ok == copied /\ fs.layout = "dir"
       IN /\ effects' = Append(effects, Effect("populate", ok))
          /\ IF ok THEN sdpc' = "mdir" /\ UNCHANGED sdExit
             ELSE SdExitWith(SdExitFailed)
  /\ UNCHANGED <<sdargs, fs, fsmVars>>

\* run(["mdir", ...]): the directory listing check
SdMdir ==
  /\ sdpc = "mdir"
  /\ \E ok \in BOOLEAN :
       /\ effects' = Append(effects, Effect("mdir", ok))
       /\ IF ok THEN sdpc' = "flash" /\ UNCHANGED sdExit
          ELSE SdExitWith(SdExitFailed)
  /\ UNCHANGED <<sdargs, fs, fsmVars>>

\* "if args.flash_device"
WantsFlash(a) == a.flash_device # ""

\* flash_image(output_image, args.flash_device)
SdFlash ==
  /\ sdpc = "flash"
  /\ IF WantsFlash(sdargs)
     THEN \E ok \in BOOLEAN :
            /\ effects' = Append(effects, Effect("flash", ok))
            /\ IF ok THEN sdpc' = "manifest" /\ UNCHANGED sdExit
               ELSE SdExitWith(SdExitFailed)
     ELSE sdpc' = "manifest" /\ UNCHANGED <<effects, sdExit>>
  /\ UNCHANGED <<sdargs, fs, fsmVars>>

\* write_manifest and "return 0"; the date command may fail
SdManifest ==
  /\ sdpc = "manifest"
  /\ \E ok \in BOOLEAN :
       /\ effects' = Append(effects, Effect("manifest", ok))
       /\ SdExitWith(IF ok THEN SdExitOk ELSE SdExitFailed)
  /\ UNCHANGED <<sdargs, fs, fsmVars>>

NextSD ==
  \/ SdCheckArgs
  \/ SdEnsureTools
  \/ SdUnlink
  \/ SdCreate
  \/ SdPopulate
  \/ SdMdir
  \/ SdFlash
  \/ SdManifest

SpecSD == InitSD /\ [][NextSD]_vars

(***************************************************************************)
(* Properties of fsm-check.py, checked under Spec.                         *)
(***************************************************************************)
Validated == pc = "done" /\ result.exc = "none"
SidebandRead == extraction.exc # "notrun"
KindsOf(errors) == [k \in DOMAIN errors |-> errors[k].kind]
IllegalOf(errors) == SelectSeq(errors, LAMBDA e : e.kind = "illegal")
\* the successors the policy allows after a state: those of its entry, if any
AllowedSet(pol, st) ==
  UNION {Range(pol.transitions[i].val) :
           i \in {j \in DOMAIN pol.transitions : pol.transitions[j].key = st}}
\* the places of the trace whose step the policy does not allow
BadSteps == {i \in 1..(Len(tags) - 1) : tags[i + 1] \notin AllowedSet(policy, tags[i])}
\* the k-th smallest element of a set of numbers
Nth(S, k) == CHOOSE i \in S : Cardinality({j \in S : j < i}) = k - 1

\* C1: a run that ends on a usage error, a missing file, a malformed policy or
\* a bad sideband length ends with status 2; status 1 only when validate
\* returned a violation, status 0 only when validate passed.
C1_ExitStatusContract ==
  pc = "done" =>
    /\ exc \in {"SystemExit", "JSONDecodeError", "AttributeError"} => exitStatus = ExitUsage
    /\ (SidebandRead /\ extraction.exc = "ValueError") => exitStatus = ExitUsage
    /\ exitStatus = ExitFail => (result.exc = "none" /\ Len(result.errors) >= 1)
    /\ exitStatus = ExitPass => (result.exc = "none" /\ result.ok)

\* C2: on a non-empty trace validate records one illegal-transition violation
\* for each step the policy does not allow and for no other, in trace order,
\* after the bad-start violation (if any) and before the bad-final one (if any).
C2_EveryIllegalTransitionReported ==
  (Validated /\ tags # <<>>) =>
    LET errors == result.errors
        ill == IllegalOf(errors)
    IN /\ Len(ill) = Cardinality(BadSteps)
       /\ \A k \in DOMAIN ill :
            LET i == Nth(BadSteps, k)
            IN ill[k].a = tags[i] /\ ill[k].b = tags[i + 1]
       /\ \A k \in DOMAIN errors :
            /\ errors[k].kind = "bad_start" => k = 1
            /\ errors[k].kind = "bad_final" => k = Len(errors)
            /\ errors[k].kind \in {"bad_start", "illegal", "bad_final"}

\* a run that reported a bad start, two illegal transitions and a bad final state
C2_Witness ==
  /\ Validated
  /\ Len(result.errors) = 4
  /\ KindsOf(result.errors) = <<"bad_start", "illegal", "illegal", "bad_final">>

\* C3: when the policy has a start and the first tag differs from it, validate
\* records a bad-start violation and fails.
C3_BadStartReported ==
  (Validated /\ tags # <<>> /\ policy.start # <<>> /\ tags[1] # policy.start[1]) =>
    /\ ~result.ok
    /\ \E k \in DOMAIN result.errors :
         /\ result.errors[k].kind = "bad_start"
         /\ result.errors[k].a = tags[1]
         /\ result.errors[k].b = policy.start[1]

\* C4: on the empty trace validate fails with the single violation "no tags
\* observed", whatever the policy; no run without a tag ends with success.
C4_EmptyTraceFails ==
  /\ (Validated /\ tags = <<>>) =>
       /\ ~result.ok
       /\ KindsOf(result.errors) = <<"no_tags">>
       /\ exitStatus = ExitFail
  /\ (pc = "done" /\ exitStatus = ExitPass) => tags # <<>>

\* an empty trace validated against a policy with a start, an accept set and
\* transitions
C4_Witness ==
  /\ Validated
  /\ tags = <<>>
  /\ policy.start = <<"INIT">>
  /\ policy.accept # <<>>
  /\ policy.transitions # <<>>

\* C5: a sideband stream whose length is not a multiple of 4 fails with the
\* error naming the length before any ids entry is parsed or record read; no
\* tag is produced, validate does not run, the run ends with status 2.
C5_BadLengthFailsFirst ==
  (SidebandRead /\ Len(sideband_bytes) % 4 # 0) =>
    /\ extraction.exc = "ValueError"
    /\ extraction.msg = [kind |-> "bad_length", n |-> Len(sideband_bytes)]
    /\ extraction.parsed = 0
    /\ extraction.unpacked = 0
    /\ tags = <<>>
    /\ result = NotValidated
    /\ pc = "done"
    /\ exitStatus = ExitUsage

\* a stream of one record and a cut one, read with a policy whose ids do not parse
C5_Witness ==
  /\ SidebandRead
  /\ Len(sideband_bytes) = 7
  /\ policy.kind = "object"
  /\ \E i \in DOMAIN policy.ids : ~_parse_state_id(policy.ids[i].val).ok

\* the numeric IDs the ids table gives
KnownIds ==
  {_parse_state_id(policy.ids[i].val).v :
     i \in {j \in DOMAIN policy.ids : _parse_state_id(policy.ids[j].val).ok}}
IdsAllParse == \A i \in DOMAIN policy.ids : _parse_state_id(policy.ids[i].val).ok
RecordCount == Len(sideband_bytes) \div 4
\* the records holding an ID the ids table does not give, whose placeholder
\* has no entry in the transition table
UnknownRecords ==
  {i \in 1..RecordCount :
     /\ UnpackU32(sideband_bytes, i) \notin KnownIds
     /\ ~HasKey(policy.transitions, Placeholder(UnpackU32(sideband_bytes, i)))}
WellFormedStream ==
  SidebandRead /\ policy.kind = "object" /\ Len(sideband_bytes) % 4 = 0

IsC7Case ==
  /\ Validated
  /\ policy.start = <<"INIT">>
  /\ policy.accept = <<"DONE">>
  /\ policy.transitions = HappyTransitions
  /\ tags = <<"RUN", "INIT">>

\* C7 as claimed: INIT -> RUN -> DONE policy, trace [RUN, INIT]: two violations,
\* bad start and illegal transition RUN -> INIT with the allowed set [].
C7_TwoViolationsEmptyAllowed ==
  IsC7Case =>
    /\ ~result.ok
    /\ result.errors = <<BadStartError("RUN", "INIT"), IllegalError("RUN", "INIT", <<>>)>>

\* C7 as amended: three violations, bad start, illegal transition RUN -> INIT
\* with the allowed set [DONE], and bad final state INIT.
C7_ThreeViolations ==
  IsC7Case =>
    /\ ~result.ok
    /\ exitStatus = ExitFail
    /\ result.errors = <<BadStartError("RUN", "INIT"),
                         IllegalError("RUN", "INIT", <<"DONE">>),
                         BadFinalError("INIT", {"DONE"})>>

\* the case of C7, read from a sideband stream
C7_Witness == IsC7Case /\ SidebandRead

\* the characters of the state names the ids tables use
Spell(name) ==
  CASE name = "INIT" -> <<"I", "N", "I", "T">>
    [] name = "RUN" -> <<"R", "U", "N">>
    [] name = "DONE" -> <<"D", "O", "N", "E">>
    [] name = "ID_5" -> <<"I", "D", "_", "5">>
    [] OTHER -> <<>>
\* an assembly text with one marker line for each state of s
AsmOf(s) == Flatten([i \in DOMAIN s |-> <<" ", "#", "T", "A", "G", ":">> \o Spell(s[i]) \o <<"\n">>])
IdOf(name) ==
  _parse_state_id(policy.ids[CHOOSE i \in DOMAIN policy.ids : policy.ids[i].key = name].val).v
\* the ids are pairwise distinct unsigned 32-bit values
IdsDistinctU32 ==
  /\ IdsAllParse
  /\ \A i \in DOMAIN policy.ids :
       LET v == _parse_state_id(policy.ids[i].val).v
       IN v >= 0 /\ v \div 65536 < 65536
  /\ \A i, j \in DOMAIN policy.ids :
       _parse_state_id(policy.ids[i].val).v = _parse_state_id(policy.ids[j].val).v => i = j
IdsNames == {policy.ids[i].key : i \in DOMAIN policy.ids}

\* C8: with pairwise distinct 32-bit ids, the stream of the little-endian
\* encodings of the ids of s decodes to s, and validate gives for it what it
\* gives for s read from assembly text.
C8_BinaryRoundTrip ==
  (SidebandRead /\ policy.kind = "object" /\ IdsDistinctU32) =>
    \A s \in SeqsUpTo(IdsNames, RecordCount) :
      sideband_bytes = PackAll([i \in DOMAIN s |-> IdOf(s[i])]) =>
        /\ extraction.exc = "none"
        /\ tags = s
        /\ (pc = "done" /\ extract_tags(AsmOf(s)) = s) =>
             validate(extract_tags(AsmOf(s)), policy) = result

\* a stream of two records, one of them with four different bytes, decoded to
\* states that assembly text can name
C8_Witness ==
  /\ SidebandRead /\ policy.kind = "object" /\ IdsDistinctU32
  /\ pc = "done"
  /\ tags = <<"DONE", "RUN">>
  /\ sideband_bytes = <<4, 3, 2, 1, 1, 0, 0, 0>>
  /\ extract_tags(AsmOf(tags)) = tags

\* the text holds TAG: followed by an identifier character
HasMarker(text) ==
  \E i \in DOMAIN text :
    /\ i + 4 <= Len(text)
    /\ text[i] = "T" /\ text[i + 1] = "A" /\ text[i + 2] = "G" /\ text[i + 3] = ":"
    /\ text[i + 4] \in IdentChars

\* C9 as claimed: a non-empty source gives a non-empty trace, for assembly text
\* and for a sideband stream extracted without error.
C9_NonEmptySourceNonEmptyTrace ==
  /\ asm_text # <<>> => tags # <<>>
  /\ (SidebandRead /\ extraction.exc = "none" /\ sideband_bytes # <<>>) => tags # <<>>

\* C9 as amended: a non-empty sideband stream extracted without error gives one
\* tag for each record, so at least one; assembly text gives at least one tag
\* exactly when it holds a marker.
C9_TraceNonEmptyWhenMarked ==
  /\ asm_text # <<>> => (tags # <<>> <=> HasMarker(asm_text))
  /\ (SidebandRead /\ extraction.exc = "none" /\ sideband_bytes # <<>>) =>
       (tags # <<>> /\ Len(tags) = RecordCount)

\* a text whose only marker is not at the start of its line, and its tag
C9_Witness ==
  /\ asm_text = <<"x", "T", "A", "G", ":", "I", "D", "_", "5">>
  /\ tags = <<"ID_5">>

(***************************************************************************)
(* Properties of create_sd_image.py, checked under SpecSD.                 *)
(***************************************************************************)
\* an effect of the given kind succeeded before place k
DoneBefore(op, k) == \E j \in 1..(k - 1) : effects[j] = Effect(op, TRUE)
\* one of the argument checks fails
ArgCheckFails ==
  \/ sdargs.size_mb < 32
  \/ fs.layout \notin {"empty_dir", "dir"}
  \/ (fs.image /\ ~sdargs.force)
  \/ (sdargs.flash_device # "" /\ sdargs.confirm_flash_device # sdargs.flash_device)

\* C10: the device is flashed only with --flash-device given and confirmed and
\* after image creation, population and the listing succeeded; the image is
\* deleted only with --force; a failed argument check ends the run with
\* status 2 and nothing created, deleted or flashed.
C10_FlashAndDeleteGuarded ==
  /\ \A k \in DOMAIN effects :
       /\ effects[k].op = "flash" =>
            /\ sdargs.flash_device # ""
            /\ sdargs.confirm_flash_device = sdargs.flash_device
            /\ DoneBefore("create", k) /\ DoneBefore("populate", k) /\ DoneBefore("mdir", k)
       /\ effects[k].op = "unlink" => sdargs.force
  /\ sdExit = SdExitUsage => effects = <<>>
  /\ (ArgCheckFails /\ effects = <<>> /\ sdpc # "check_args") =>
       (sdpc = "done" /\ sdExit = SdExitUsage)

\* a run that deleted the old image and flashed the new one
C10_Witness ==
  /\ sdpc = "done"
  /\ sdExit = SdExitOk
  /\ \E k \in DOMAIN effects : effects[k] = Effect("unlink", TRUE)
  /\ \E k \in DOMAIN effects : effects[k] = Effect("flash", TRUE)

====
